---------------------------- MODULE Spec2Model ----------------------------
(***************************************************************************)
(* Model of the code cell of qho-plot.ipynb: the Hermite polynomial       *)
(* family built by make_Hr, the wavefunction evaluator get_psi, the       *)
(* turning points, the sample grid and the per-state plotting loop.       *)
(*                                                                         *)
(* Numbers.  The notebook computes in floating point.  Every number the   *)
(* cell builds from its constants is of the form (e + o*sqrt(rad))/den    *)
(* with integers e, o, den, rad; the model computes with these exactly.   *)
(* The transcendental factors of get_psi (the normalisation constant and  *)
(* the Gaussian) are kept as the arguments they are computed from.        *)
(* Polynomials are np.poly1d coefficient sequences, highest degree first, *)
(* with integer-valued coefficients.  Python index i is TLA+ index i+1.   *)
(***************************************************************************)
EXTENDS Integers, Sequences, FiniteSets, TLC

VARIABLES N, PLOT_PROB, pc, err, HrL, n_mk, Hr,
          xmin, xmax, zmin, zmax, x, V, n, E_n, ymax, ax, saved, call

vars == <<N, PLOT_PROB, pc, err, HrL, n_mk, Hr,
          xmin, xmax, zmin, zmax, x, V, n, E_n, ymax, ax, saved, call>>

-----------------------------------------------------------------------------
(* Bounds of the model *)

\* N is drawn from -NegN .. MaxN (the notebook sets N = 6)
MaxN == 6

NegN == 2

\* number of sample points of the grid (the notebook uses 500)
NPTS == 3

\* get_psi is probed at the integer points -MaxX .. MaxX
MaxX == 1

-----------------------------------------------------------------------------
(* Exact numbers (e + o*sqrt(rad))/den *)

Abs(a) == IF a < 0 THEN -a ELSE a

RECURSIVE GCD(_, _)
GCD(a, b) == IF b = 0 THEN Abs(a) ELSE GCD(b, a % Abs(b))

\* float('nan'), the result of np.sqrt of a negative number
NaN == [e |-> 0, o |-> 0, den |-> 0, rad |-> 1]

\* a name that is not bound yet
Unbound == [e |-> 0, o |-> 0, den |-> 0, rad |-> 0]

\* Python evaluates an argument once, before the call: below, each operator
\* binds the values of its arguments (u, v) and computes with those.

\* lowest terms; a rational carries rad = 1
RNorm(r) ==
    CHOOSE res \in
        { LET g == GCD(GCD(v.e, v.o), v.den)
          IN  [e |-> v.e \div g, o |-> v.o \div g, den |-> v.den \div g,
               rad |-> IF v.o = 0 THEN 1 ELSE v.rad] : v \in {r} } : TRUE

Rat(p, q) == RNorm([e |-> p, o |-> 0, den |-> q, rad |-> 1])

RadOf(a, b) == IF a.o # 0 THEN a.rad ELSE b.rad

RAdd(a, b) ==
    CHOOSE res \in
        { IF u.den = 0 \/ v.den = 0 THEN NaN
          ELSE RNorm([e |-> u.e * v.den + v.e * u.den,
                      o |-> u.o * v.den + v.o * u.den,
                      den |-> u.den * v.den, rad |-> RadOf(u, v)])
          : u \in {a}, v \in {b} } : TRUE

RNeg(a) ==
    CHOOSE res \in { [u EXCEPT !.e = 0 - u.e, !.o = 0 - u.o] : u \in {a} } : TRUE

RSub(a, b) == RAdd(a, RNeg(b))

RMul(a, b) ==
    CHOOSE res \in
        { IF u.den = 0 \/ v.den = 0 THEN NaN
          ELSE RNorm([e |-> u.e * v.e + u.o * v.o * RadOf(u, v),
                      o |-> u.e * v.o + u.o * v.e,
                      den |-> u.den * v.den, rad |-> RadOf(u, v)])
          : u \in {a}, v \in {b} } : TRUE

RDivInt(a, k) ==
    CHOOSE res \in
        { IF u.den = 0 THEN NaN
          ELSE RNorm([e |-> u.e, o |-> u.o, den |-> u.den * k, rad |-> u.rad])
          : u \in {a} } : TRUE

\* np.sqrt of a rational with an integer value
RSqrt(a) ==
    CHOOSE res \in
        { IF u.den = 0 \/ u.e < 0 THEN NaN
          ELSE LET q == u.e \div u.den
               IN  IF \E k \in 0..q : k * k = q
                   THEN Rat(CHOOSE k \in 0..q : k * k = q, 1)
                   ELSE [e |-> 0, o |-> 1, den |-> 1, rad |-> q]
          : u \in {a} } : TRUE

-----------------------------------------------------------------------------
(* np.poly1d arithmetic *)

\* an entry of [None] * k
None == <<>>

RECURSIVE TrimZeros(_)
TrimZeros(c) ==
    IF Len(c) > 0 /\ c[1] = 0 THEN TrimZeros(Tail(c)) ELSE c

\* np.poly1d(c): leading zeros are trimmed, the zero polynomial is [0]
poly1d(c) == LET t == TrimZeros(c) IN IF Len(t) = 0 THEN <<0>> ELSE t

\* coefficient k of the convolution: the sum over i of a[i] * b[k + 1 - i]
RECURSIVE ConvTerm(_, _, _, _)
ConvTerm(a, b, k, i) ==
    IF i > Len(a) THEN 0
    ELSE (IF k + 1 - i >= 1 /\ k + 1 - i <= Len(b) THEN a[i] * b[k + 1 - i] ELSE 0)
         + ConvTerm(a, b, k, i + 1)

\* poly1d.__mul__: the convolution of the coefficient sequences
PolyMul(a, b) ==
    poly1d([k \in 1..(Len(a) + Len(b) - 1) |-> ConvTerm(a, b, k, 1)])

\* poly1d.__rmul__ with a scalar
PolyScale(k, p) == poly1d([i \in 1..Len(p) |-> k * p[i]])

PadTo(p, len) ==
    [i \in 1..len |-> IF i <= len - Len(p) THEN 0 ELSE p[i - (len - Len(p))]]

\* variant: the coefficients are added
PolySub_adds(a, b) ==
    LET len == IF Len(a) > Len(b) THEN Len(a) ELSE Len(b)
    IN  poly1d([i \in 1..len |-> PadTo(a, len)[i] + PadTo(b, len)[i]])

\* poly1d.__sub__ (np.polysub): the shorter sequence is padded in front
PolySub(a, b) ==
    LET len == IF Len(a) > Len(b) THEN Len(a) ELSE Len(b)
    IN  poly1d([i \in 1..len |-> PadTo(a, len)[i] - PadTo(b, len)[i]])

RECURSIVE Horner(_, _, _, _)
Horner(p, i, y, pt) ==
    IF i > Len(p) THEN y
    ELSE Horner(p, i + 1, RAdd(RMul(y, pt), Rat(p[i], 1)), pt)

\* variant: the coefficients are read lowest degree first
polyval_lowestFirst(p, pt) ==
    Horner([i \in 1..Len(p) |-> p[Len(p) + 1 - i]], 1, Rat(0, 1), pt)

\* poly1d.__call__ (np.polyval): Horner's scheme from the leading coefficient
polyval(p, pt) == Horner(p, 1, Rat(0, 1), pt)

-----------------------------------------------------------------------------
(* The notebook's constants and functions *)

\* XPAD_FRAC = 1.3
XPAD_FRAC == Rat(13, 10)

\* SCALING = 0.7
SCALING == Rat(7, 10)

COLOR(prob) == IF prob THEN "navy" ELSE "cornflowerblue"

RECURSIVE factorial(_)
factorial(k) == IF k <= 0 THEN 1 ELSE k * factorial(k - 1)

\* NORM_CONST(n) = 1/sqrt(sqrt(pi) * k) with k = 2**n * n!; kept as k
NORM_CONST(k) == (2 ^ k) * factorial(k)

\* variant: n + 1
get_E_plusOne(v) == RAdd(v, Rat(1, 1))

\* get_E = lambda n: n + 0.5
get_E(v) == RAdd(v, Rat(1, 2))

\* Python's list[i] for i >= 0
At(list, i) == list[i + 1]

\* variant: a list of at least two entries
ListOfNone_atLeastTwo(k) == [i \in 1..(IF k >= 2 THEN k ELSE 2) |-> None]

\* [None] * k : the empty list when k <= 0
ListOfNone(k) == IF k <= 0 THEN <<>> ELSE [i \in 1..k |-> None]

\* variant: the factor 2*n of the recursion for H_[n+1]
HermiteStep_2n(H, k) ==
    PolySub(PolyMul(At(H, 1), At(H, k - 1)), PolyScale(2 * k, At(H, k - 2)))

\* variant: Hr[n-1] and Hr[n-2] exchanged
HermiteStep_swapped(H, k) ==
    PolySub(PolyMul(At(H, 1), At(H, k - 2)), PolyScale(2 * (k - 1), At(H, k - 1)))

\* Hr[1]*Hr[n-1] - 2*(n-1)*Hr[n-2]
HermiteStep(H, k) ==
    PolySub(PolyMul(At(H, 1), At(H, k - 1)), PolyScale(2 * (k - 1), At(H, k - 2)))

\* variant: the assignment goes to Hr[n-1]
LoopAssign_offByOne(H, k) == [H EXCEPT ![k] = HermiteStep(H, k)]

\* Hr[n] = ... in the loop of make_Hr
LoopAssign(H, k) == [H EXCEPT ![k + 1] = HermiteStep(H, k)]

\* get_psi(n, x) at one point: NORM_CONST(n) * Hr[n](x) * exp(-x*x/2),
\* kept as its three factors (norm: see NORM_CONST, gauss: the argument of exp)
get_psi(k, pt) ==
    [norm |-> NORM_CONST(k),
     H |-> polyval(At(Hr, k), pt),
     gauss |-> RDivInt(RNeg(RMul(pt, pt)), 2)]

\* get_turning_points(n)
get_turning_points(k) ==
    LET xm == RSqrt(RMul(Rat(2, 1), get_E(RAdd(Rat(k, 1), Rat(1, 2)))))
    IN  <<RNeg(xm), xm>>

\* get_potential(x) on a grid
get_potential(g) == [j \in 1..Len(g) |-> RDivInt(RMul(g[j], g[j]), 2)]

\* variant: endpoint=False
linspace_noEndpoint(start, stop, num) ==
    LET step == RDivInt(RSub(stop, start), num)
    IN  [j \in 1..num |-> RAdd(RMul(Rat(j - 1, 1), step), start)]

\* np.linspace(start, stop, num): arange(0, num)*step + start, then the last
\* point is set to stop
linspace(start, stop, num) ==
    LET step == RDivInt(RSub(stop, start), num - 1)
    IN  [j \in 1..num |->
            IF j = num /\ num > 1 THEN stop
            ELSE RAdd(RMul(Rat(j - 1, 1), step), start)]

\* plot_func(ax, f, scaling, yoffset): one line and two fills
plot_func(a, f, scaling, yoffset) ==
    [a EXCEPT
       !.lines = Append(@, [kind |-> "psi", x |-> x, f |-> f,
                            scaling |-> scaling, yoffset |-> yoffset,
                            color |-> COLOR(PLOT_PROB)]),
       !.fills = @ \o << [where |-> "f>0", yoffset |-> yoffset],
                         [where |-> "f<0", yoffset |-> yoffset] >>]

-----------------------------------------------------------------------------
(* The run of the cell *)

cfgVars  == <<N, PLOT_PROB>>
mkVars   == <<HrL, n_mk>>
gridVars == <<xmin, xmax, zmin, zmax, x, V>>
plotVars == <<n, E_n, ymax, ax, saved>>

Init ==
    /\ N \in (0 - NegN)..MaxN
    /\ PLOT_PROB \in BOOLEAN
    /\ pc = "make_Hr"
    /\ err = "none"
    /\ HrL = <<>>
    /\ n_mk = 0
    /\ Hr = <<>>
    /\ xmin = Unbound /\ xmax = Unbound /\ zmin = Unbound /\ zmax = Unbound
    /\ x = <<>> /\ V = <<>>
    /\ n = 0
    /\ E_n = Unbound /\ ymax = Unbound
    /\ ax = [lines |-> <<>>, fills |-> <<>>, texts |-> <<>>,
             xlim |-> <<>>, ylim |-> <<>>]
    /\ saved = <<>>
    /\ call = [fn |-> "none", n |-> 0, x |-> Unbound, res |-> <<>>]

\* an uncaught exception ends the cell
Raise(e) == pc' = "error" /\ err' = e

\* Hr = [None] * (N + 1)
MakeHrAlloc ==
    /\ pc = "make_Hr"
    /\ HrL' = ListOfNone(N + 1)
    /\ pc' = "set0"
    /\ UNCHANGED <<cfgVars, err, n_mk, Hr, gridVars, plotVars, call>>

\* Hr[0] = np.poly1d([1.,])
MakeHrSet0 ==
    /\ pc = "set0"
    /\ IF Len(HrL) < 1
       THEN Raise("IndexError") /\ UNCHANGED HrL
       ELSE /\ HrL' = [HrL EXCEPT ![1] = poly1d(<<1>>)]
            /\ pc' = "set1"
            /\ UNCHANGED err
    /\ UNCHANGED <<cfgVars, n_mk, Hr, gridVars, plotVars, call>>

\* Hr[1] = np.poly1d([2., 0.]); then the loop starts at n = 2
MakeHrSet1 ==
    /\ pc = "set1"
    /\ IF Len(HrL) < 2
       THEN Raise("IndexError") /\ UNCHANGED <<HrL, n_mk>>
       ELSE /\ HrL' = [HrL EXCEPT ![2] = poly1d(<<2, 0>>)]
            /\ n_mk' = 2
            /\ pc' = "loop"
            /\ UNCHANGED err
    /\ UNCHANGED <<cfgVars, Hr, gridVars, plotVars, call>>

\* one iteration of: for n in range(2, N+1): Hr[n] = ...
MakeHrLoop ==
    /\ pc = "loop"
    /\ n_mk <= N
    /\ IF None \in {At(HrL, 1), At(HrL, n_mk - 1), At(HrL, n_mk - 2)}
       THEN Raise("TypeError") /\ UNCHANGED <<HrL, n_mk>>
       ELSE /\ HrL' = LoopAssign(HrL, n_mk)
            /\ n_mk' = n_mk + 1
            /\ UNCHANGED <<pc, err>>
    /\ UNCHANGED <<cfgVars, Hr, gridVars, plotVars, call>>

\* return Hr; Hr = make_Hr()
MakeHrReturn ==
    /\ pc = "loop"
    /\ n_mk > N
    /\ Hr' = HrL
    /\ pc' = "grid"
    /\ UNCHANGED <<cfgVars, err, mkVars, gridVars, plotVars, call>>

\* xmin, xmax = get_turning_points(N); zmin, zmax; x = np.linspace(...); V
BuildGrid ==
    /\ pc = "grid"
    /\ LET tp == get_turning_points(N)
           grid == linspace(tp[1], tp[2], NPTS)
       IN  /\ xmin' = tp[1]
           /\ xmax' = tp[2]
           /\ zmin' = RMul(XPAD_FRAC, tp[1])
           /\ zmax' = RMul(XPAD_FRAC, tp[2])
           /\ x' = grid
           /\ V' = get_potential(grid)
    /\ pc' = "potential"
    /\ UNCHANGED <<cfgVars, err, mkVars, Hr, plotVars, call>>

\* ax.plot(x, V, color='k', linewidth=1.5); the loop starts at n = 0
PlotPotential ==
    /\ pc = "potential"
    /\ ax' = [ax EXCEPT !.lines = Append(@, [kind |-> "V", x |-> x, f |-> V,
                                  scaling |-> Rat(1, 1), yoffset |-> Rat(0, 1),
                                  color |-> "k"])]
    /\ n' = 0
    /\ pc' = "plot"
    /\ UNCHANGED <<cfgVars, err, mkVars, Hr, gridVars, E_n, ymax, saved, call>>

\* one iteration of: for n in range(N+1): psi_n, E_n, plot_func, two labels
PlotState ==
    /\ pc = "plot"
    /\ n <= N
    /\ LET psi_n == [j \in 1..Len(x) |-> get_psi(n, x[j])]
           f == [j \in 1..Len(x) |->
                    [val |-> psi_n[j], pow |-> IF PLOT_PROB THEN 2 ELSE 1]]
           scaling == IF PLOT_PROB THEN RMul(SCALING, Rat(3, 2)) ELSE SCALING
           En == get_E(Rat(n, 1))
       IN  /\ E_n' = En
           /\ ax' = [plot_func(ax, f, scaling, En) EXCEPT
                       !.texts = @ \o
                         << [s |-> "E", n |-> n,
                             x |-> RAdd(xmax, Rat(1, 5)), y |-> En],
                            [s |-> IF PLOT_PROB THEN "|psi|^2" ELSE "psi", n |-> n,
                             x |-> RSub(xmin, Rat(1, 5)), y |-> En] >>]
    /\ n' = n + 1
    /\ UNCHANGED <<cfgVars, pc, err, mkVars, Hr, gridVars, ymax, saved, call>>

\* ymax = E_n + 0.5; the axis label; ax.set_xlim(zmin, zmax); ax.set_ylim(0, ymax)
Finish ==
    /\ pc = "plot"
    /\ n > N
    /\ IF E_n = Unbound
       THEN Raise("NameError") /\ UNCHANGED <<ymax, ax>>
       ELSE /\ ymax' = RAdd(E_n, Rat(1, 2))
            /\ ax' = [ax EXCEPT
                        !.texts = Append(@, [s |-> "ylabel", n |-> 0,
                                             x |-> Rat(0, 1),
                                             y |-> RAdd(E_n, Rat(1, 2))]),
                        !.xlim = <<zmin, zmax>>,
                        !.ylim = <<Rat(0, 1), RAdd(E_n, Rat(1, 2))>>]
            /\ pc' = "save"
            /\ UNCHANGED err
    /\ UNCHANGED <<cfgVars, mkVars, Hr, gridVars, n, E_n, saved, call>>

\* plt.savefig('qho-psi{}.png'.format(PLOT_PROB+1)); plt.close()
Save ==
    /\ pc = "save"
    /\ saved' = Append(saved, IF PLOT_PROB THEN 2 ELSE 1)
    /\ pc' = "done"
    /\ UNCHANGED <<cfgVars, err, mkVars, Hr, gridVars, n, E_n, ymax, ax, call>>

Next ==
    \/ MakeHrAlloc
    \/ MakeHrSet0
    \/ MakeHrSet1
    \/ MakeHrLoop
    \/ MakeHrReturn
    \/ BuildGrid
    \/ PlotPotential
    \/ PlotState
    \/ Finish
    \/ Save

Spec == Init /\ [][Next]_vars

\* the interpreter runs the cell to its end
FairSpec == Spec /\ WF_vars(Next)

-----------------------------------------------------------------------------
(* Calls of the cell's functions once the cell has run *)

CallTurningPoints ==
    /\ pc = "done"
    /\ \E k \in 0..MaxN :
          call' = [fn |-> "get_turning_points", n |-> k, x |-> Unbound,
                   res |-> get_turning_points(k)]
    /\ UNCHANGED <<cfgVars, pc, err, mkVars, Hr, gridVars, plotVars>>

CallPsi ==
    /\ pc = "done"
    /\ \E k \in 0..N, p \in (0 - MaxX)..MaxX :
          call' = [fn |-> "get_psi", n |-> k, x |-> Rat(p, 1),
                   res |-> get_psi(k, Rat(p, 1))]
    /\ UNCHANGED <<cfgVars, pc, err, mkVars, Hr, gridVars, plotVars>>

CallNext == Next \/ CallTurningPoints \/ CallPsi

CallSpec == Init /\ [][CallNext]_vars

-----------------------------------------------------------------------------
(* Properties *)

\* make_Hr has returned and the global Hr is bound (a returned family is never
\* empty: Hr[0] is assigned before the return)
Returned == Len(Hr) > 0

\* the coefficient of x^d of a poly1d
Coef(p, d) == IF d >= 0 /\ d < Len(p) THEN p[Len(p) - d] ELSE 0

\* the curves plot_func has drawn: every line but the potential's
PsiLines == SelectSeq(ax.lines, LAMBDA l : l.kind = "psi")

\* C1: for every N >= 0 make_Hr does not fail and returns exactly N+1
\* polynomials; for N = 0 the family is the single constant polynomial 1.
C1_ReturnsFamilyForAllNonNegN ==
    N >= 0 =>
        /\ err = "none"
        /\ Returned => Len(Hr) = N + 1
        /\ (Returned /\ N = 0) => Hr = << <<1>> >>

\* C2: in the returned family, family[0] = 1, family[1] = 2x, and for
\* 2 <= n <= N every coefficient of family[n] is that of
\* 2x*family[n-1] - 2(n-1)*family[n-2]:
\* coef_d(family[n]) = 2*coef_(d-1)(family[n-1]) - 2(n-1)*coef_d(family[n-2]).
C2_Recurrence ==
    Returned =>
        /\ At(Hr, 0) = <<1>>
        /\ At(Hr, 1) = <<2, 0>>
        /\ \A k \in 2..N :
              /\ Len(At(Hr, k)) <= k + 1
              /\ \A d \in 0..(k + 1) :
                    Coef(At(Hr, k), d) =
                        2 * Coef(At(Hr, k - 1), d - 1)
                          - 2 * (k - 1) * Coef(At(Hr, k - 2), d)

C2_Witness == Returned /\ N >= 4 /\ pc = "grid"

\* C3: for every n in 0..N, family[n] has n+1 coefficients and its leading
\* coefficient is 2^n, which is not zero.
C3_ExactDegree ==
    Returned =>
        \A k \in 0..N :
            /\ Len(At(Hr, k)) = k + 1
            /\ At(Hr, k)[1] = 2 ^ k
            /\ At(Hr, k)[1] # 0

C3_Witness == Returned /\ N >= 5 /\ pc = "potential"

\* C4: for N >= 3, family[2] = 4x^2 - 2 and family[3] = 8x^3 - 12x.
C4_KnownValues ==
    (Returned /\ N >= 3) =>
        /\ At(Hr, 2) = <<4, 0, -2>>
        /\ At(Hr, 3) = <<8, 0, -12, 0>>

C4_Witness == Returned /\ N >= 3 /\ pc = "plot" /\ n = 3

\* C5: get_turning_points(n) returns (-xmax, +xmax) with xmax^2 = 2n + 1;
\* for n = 0 the turning points are -1 and +1.
C5_TurningPointsSquare ==
    call.fn = "get_turning_points" =>
        /\ call.res[1] = RNeg(call.res[2])
        /\ RMul(call.res[2], call.res[2]) = Rat(2 * call.n + 1, 1)
        /\ call.n = 0 => call.res = <<Rat(-1, 1), Rat(1, 1)>>

\* C6: for every negative N, make_Hr ends in an error raised during the
\* construction: no family is ever bound, and no grid, curve or image follows.
C6_NegativeNFails ==
    /\ [](N < 0 =>
            /\ Hr = <<>>
            /\ pc \in {"make_Hr", "set0", "error"}
            /\ pc = "error" => err = "IndexError"
            /\ x = <<>> /\ V = <<>>
            /\ ax.lines = <<>> /\ ax.fills = <<>> /\ ax.texts = <<>>
            /\ saved = <<>>)
    /\ (N < 0) ~> (pc = "error")

C6_Witness == N < 0 /\ pc = "error" /\ err = "IndexError"

\* the value of get_psi is zero: its polynomial factor is zero
PsiIsZero(r) == r.H = Rat(0, 1)

\* C7: get_psi(1, 0) is 0 and, for every odd n <= N, family[n] has only
\* odd-degree non-zero coefficients and get_psi(n, 0) is 0; get_psi(0, 0) is
\* NORM_CONST(0) (times family[0](0) = 1 and exp(0)).
C7_PsiAtZero ==
    /\ Returned =>
          \A k \in 0..N : k % 2 = 1 =>
              \A d \in 0..k : d % 2 = 0 => Coef(At(Hr, k), d) = 0
    /\ (call.fn = "get_psi" /\ call.x = Rat(0, 1)) =>
          /\ call.n % 2 = 1 => PsiIsZero(call.res)
          /\ call.n = 0 =>
                call.res = [norm |-> NORM_CONST(0), H |-> Rat(1, 1),
                            gauss |-> Rat(0, 1)]

C7_Witness ==
    /\ N = 6
    /\ call.fn = "get_psi" /\ call.n = 1 /\ call.x = Rat(0, 1)
    /\ PsiIsZero(call.res)

\* C8 as stated: the first and last grid points are XPAD_FRAC*xmin and
\* XPAD_FRAC*xmax, where (xmin, xmax) = get_turning_points(N).
C8_GridIsPadded ==
    x # <<>> =>
        /\ x[1] = RMul(XPAD_FRAC, get_turning_points(N)[1])
        /\ x[Len(x)] = RMul(XPAD_FRAC, get_turning_points(N)[2])

\* C8 amended: the grid has NPTS points, its first and last points are the
\* turning points xmin and xmax of state N themselves; the padding by
\* XPAD_FRAC is that of the x-axis limits.
C8_GridSpansTurningPoints ==
    /\ x # <<>> =>
          /\ Len(x) = NPTS
          /\ x[1] = get_turning_points(N)[1]
          /\ x[Len(x)] = get_turning_points(N)[2]
          /\ x[1] # RMul(XPAD_FRAC, x[1])
    /\ ax.xlim # <<>> =>
          ax.xlim = <<RMul(XPAD_FRAC, get_turning_points(N)[1]),
                      RMul(XPAD_FRAC, get_turning_points(N)[2])>>

C8_Witness == x # <<>> /\ ax.xlim # <<>> /\ N >= 2

\* C9: inside make_Hr every index is written once, in increasing order, and
\* no None is read; the returned family has all N+1 entries defined; once
\* Hr is bound no step changes it.
C9_WriteOnceThenReadOnly ==
    /\ [](/\ err # "TypeError"
          /\ Returned =>
                /\ Len(Hr) = N + 1
                /\ \A i \in 1..Len(Hr) : Hr[i] # None)
    /\ [][/\ Len(HrL) > 0 => Len(HrL') = Len(HrL)
          /\ \A i \in 1..Len(HrL) :
                /\ HrL[i] # None => HrL'[i] = HrL[i]
                /\ (HrL[i] = None /\ HrL'[i] # None) =>
                      /\ \A j \in 1..(i - 1) : HrL[j] # None
                      /\ \A j \in (i + 1)..Len(HrL) : HrL'[j] = None
          /\ Returned => Hr' = Hr
          /\ (~Returned /\ Returned') => (pc = "loop" /\ Hr' = HrL)]_vars

C9_Witness == Returned /\ pc = "done" /\ Len(Hr) >= 4 /\ Hr = HrL

\* the samples plot_func is given for quantum number k
CurveOf(k) ==
    [j \in 1..Len(x) |->
        [val |-> get_psi(k, x[j]), pow |-> IF PLOT_PROB THEN 2 ELSE 1]]

\* C10: a run with N >= 1 draws one curve for each n = 0..N in increasing
\* order, each with offset n + 1/2, saves the image once, only after the
\* curve for n = N, and terminates.
C10_OnePassThenSave ==
    /\ [](N >= 1 =>
            /\ Len(PsiLines) <= N + 1
            /\ pc = "plot" => Len(PsiLines) = n
            /\ \A j \in 1..Len(PsiLines) :
                  /\ PsiLines[j].f = CurveOf(j - 1)
                  /\ PsiLines[j].yoffset = Rat(2 * (j - 1) + 1, 2)
            /\ Len(PsiLines) >= 1 => PsiLines[1].yoffset = Rat(1, 2)
            /\ Len(PsiLines) >= 4 => PsiLines[4].yoffset = Rat(7, 2)
            /\ Len(saved) <= 1
            /\ Len(saved) = 1 => (pc = "done" /\ Len(PsiLines) = N + 1))
    /\ (N >= 1) ~> (pc = "done" /\ Len(saved) = 1)

C10_Witness == pc = "done" /\ N >= 3 /\ Len(saved) = 1 /\ Len(PsiLines) = N + 1

=============================================================================
